---- MODULE Spec2Model ----
(***************************************************************************)
(* Model of windirs (src/lib.rs): the FolderId enumeration, the FOLDER_IDS *)
(* identifier table, known_folder_path and raw_known_folder_path, run by   *)
(* one or several callers against a platform (SHGetKnownFolderPath,        *)
(* lstrlenW, CoTaskMemFree) whose answers are drawn from bounded sets.     *)
(***************************************************************************)
EXTENDS Integers, Sequences, FiniteSets, TLC

\* ---------------------------------------------------------------- bounds
NumThreads == 2
MaxBufLen == 2

\* ------------------------------------------------- 32-bit status codes
\* An HRESULT (i32) is an integer in -2^31 .. 2^31-1.  A u32 is the pair of
\* its 16-bit halves, since 2^32 - 1 is outside the integers TLC computes on.
Half == 65536

U32(hi, lo) == [hi |-> hi, lo |-> lo]

\* `x as i32` for x : u32 (two's complement reinterpretation).
AsI32(u) ==
   IF u.hi >= Half \div 2 THEN (u.hi - Half) * Half + u.lo
                          ELSE u.hi * Half + u.lo

\* A plausible slip: the magnitude of the code instead of its bit pattern.
AsU32_Magnitude(e) ==
   LET m == IF e < 0 THEN -(e + 1) ELSE e
   IN  [hi |-> (m \div Half) % Half, lo |-> m % Half]

\* `e as u32` for e : i32 (two's complement reinterpretation).
AsU32(e) == [hi |-> (e \div Half) % Half, lo |-> e % Half]

S_OK == 0
E_FAIL == AsI32(U32(32768, 16389))
E_INVALIDARG == AsI32(U32(32775, 87))
NOT_FOUND == AsI32(U32(32775, 2))
CANNOT_FIND_PATH == AsI32(U32(32775, 3))

\* Codes the platform query is given to answer with: the five the resolver
\* names, and codes it does not name (S_FALSE, E_ACCESSDENIED, 0x80000000,
\* 0xFFFFFFFF).
S_FALSE == 1
E_ACCESSDENIED == AsI32(U32(32775, 5))
HRESULT_MIN == AsI32(U32(32768, 0))
HRESULT_ALLONES == AsI32(U32(65535, 65535))

NamedCodes == {S_OK, E_FAIL, E_INVALIDARG, NOT_FOUND, CANNOT_FIND_PATH}
UnnamedCodes == {S_FALSE, E_ACCESSDENIED, HRESULT_MIN, HRESULT_ALLONES}
HResults == NamedCodes \cup UnnamedCodes

\* ------------------------------------------------------------ the catalog
\* enum FolderId, in declaration order; NetworkFolder = 0 and each later
\* variant's discriminant is one more than the previous one's.
FolderId ==
   <<
      "NetworkFolder", "ComputerFolder", "InternetFolder", "ControlPanelFolder",
      "PrintersFolder", "SyncManagerFolder", "SyncSetupFolder", "ConflictFolder",
      "SyncResultsFolder", "RecycleBinFolder", "ConnectionsFolder", "Fonts", "Desktop",
      "Startup", "Programs", "StartMenu", "Recent", "SendTo", "Documents", "Favorites",
      "NetHood", "PrintHood", "Templates", "CommonStartup", "CommonPrograms",
      "CommonStartMenu", "PublicDesktop", "ProgramData", "CommonTemplates",
      "PublicDocuments", "RoamingAppData", "LocalAppData", "LocalAppDataLow",
      "InternetCache", "Cookies", "History", "System", "SystemX86", "Windows", "Profile",
      "Pictures", "ProgramFilesX86", "ProgramFilesCommonX86", "ProgramFilesX64",
      "ProgramFilesCommonX64", "ProgramFiles", "ProgramFilesCommon", "UserProgramFiles",
      "UserProgramFilesCommon", "AdminTools", "CommonAdminTools", "Music", "Videos",
      "Ringtones", "PublicPictures", "PublicMusic", "PublicVideos", "PublicRingtones",
      "ResourceDir", "LocalizedResourcesDir", "CommonOEMLinks", "CDBurning",
      "UserProfiles", "Playlists", "SamplePlaylists", "SampleMusic", "SamplePictures",
      "SampleVideos", "PhotoAlbums", "Public", "ChangeRemovePrograms", "AppUpdates",
      "AddNewPrograms", "Downloads", "PublicDownloads", "SavedSearches", "QuickLaunch",
      "Contacts", "SidebarParts", "SidebarDefaultParts", "PublicGameTasks", "GameTasks",
      "SavedGames", "Games", "SearchMapi", "SearchCsc", "Links", "UsersFiles",
      "UsersLibraries", "SearchHome", "OriginalImages", "DocumentsLibrary",
      "MusicLibrary", "PicturesLibrary", "VideosLibrary", "RecordedTVLibrary",
      "HomeGroup", "HomeGroupCurrentUser", "DeviceMetadataStore", "Libraries",
      "PublicLibraries", "UserPinned", "ImplicitAppShortcuts", "AccountPictures",
      "PublicUserTiles", "AppsFolder", "StartMenuAllPrograms", "CommonStartMenuPlaces",
      "ApplicationShortcuts", "RoamingTiles", "RoamedTileImages", "Screenshots",
      "CameraRoll", "SkyDrive", "OneDrive", "SkyDriveDocuments", "SkyDrivePictures",
      "SkyDriveMusic", "SkyDriveCameraRoll", "SearchHistory", "SearchTemplates",
      "CameraRollLibrary", "SavedPictures", "SavedPicturesLibrary", "RetailDemo",
      "Device", "DevelopmentFiles", "Objects3D", "AppCaptures", "LocalDocuments",
      "LocalPictures", "LocalVideos", "LocalMusic", "LocalDownloads", "RecordedCalls",
      "AllAppMods", "CurrentAppMods", "AppDataDesktop", "AppDataDocuments",
      "AppDataFavorites", "AppDataProgramData"
   >>
FOLDER_IDS_Full ==
   <<
      "FOLDERID_NetworkFolder", "FOLDERID_ComputerFolder", "FOLDERID_InternetFolder",
      "FOLDERID_ControlPanelFolder", "FOLDERID_PrintersFolder",
      "FOLDERID_SyncManagerFolder", "FOLDERID_SyncSetupFolder", "FOLDERID_ConflictFolder",
      "FOLDERID_SyncResultsFolder", "FOLDERID_RecycleBinFolder",
      "FOLDERID_ConnectionsFolder", "FOLDERID_Fonts", "FOLDERID_Desktop",
      "FOLDERID_Startup", "FOLDERID_Programs", "FOLDERID_StartMenu", "FOLDERID_Recent",
      "FOLDERID_SendTo", "FOLDERID_Documents", "FOLDERID_Favorites", "FOLDERID_NetHood",
      "FOLDERID_PrintHood", "FOLDERID_Templates", "FOLDERID_CommonStartup",
      "FOLDERID_CommonPrograms", "FOLDERID_CommonStartMenu", "FOLDERID_PublicDesktop",
      "FOLDERID_ProgramData", "FOLDERID_CommonTemplates", "FOLDERID_PublicDocuments",
      "FOLDERID_RoamingAppData", "FOLDERID_LocalAppData", "FOLDERID_LocalAppDataLow",
      "FOLDERID_InternetCache", "FOLDERID_Cookies", "FOLDERID_History", "FOLDERID_System",
      "FOLDERID_SystemX86", "FOLDERID_Windows", "FOLDERID_Profile", "FOLDERID_Pictures",
      "FOLDERID_ProgramFilesX86", "FOLDERID_ProgramFilesCommonX86",
      "FOLDERID_ProgramFilesX64", "FOLDERID_ProgramFilesCommonX64",
      "FOLDERID_ProgramFiles", "FOLDERID_ProgramFilesCommon", "FOLDERID_UserProgramFiles",
      "FOLDERID_UserProgramFilesCommon", "FOLDERID_AdminTools",
      "FOLDERID_CommonAdminTools", "FOLDERID_Music", "FOLDERID_Videos",
      "FOLDERID_Ringtones", "FOLDERID_PublicPictures", "FOLDERID_PublicMusic",
      "FOLDERID_PublicVideos", "FOLDERID_PublicRingtones", "FOLDERID_ResourceDir",
      "FOLDERID_LocalizedResourcesDir", "FOLDERID_CommonOEMLinks", "FOLDERID_CDBurning",
      "FOLDERID_UserProfiles", "FOLDERID_Playlists", "FOLDERID_SamplePlaylists",
      "FOLDERID_SampleMusic", "FOLDERID_SamplePictures", "FOLDERID_SampleVideos",
      "FOLDERID_PhotoAlbums", "FOLDERID_Public", "FOLDERID_ChangeRemovePrograms",
      "FOLDERID_AppUpdates", "FOLDERID_AddNewPrograms", "FOLDERID_Downloads",
      "FOLDERID_PublicDownloads", "FOLDERID_SavedSearches", "FOLDERID_QuickLaunch",
      "FOLDERID_Contacts", "FOLDERID_SidebarParts", "FOLDERID_SidebarDefaultParts",
      "FOLDERID_PublicGameTasks", "FOLDERID_GameTasks", "FOLDERID_SavedGames",
      "FOLDERID_Games", "FOLDERID_SEARCH_MAPI", "FOLDERID_SEARCH_CSC", "FOLDERID_Links",
      "FOLDERID_UsersFiles", "FOLDERID_UsersLibraries", "FOLDERID_SearchHome",
      "FOLDERID_OriginalImages", "FOLDERID_DocumentsLibrary", "FOLDERID_MusicLibrary",
      "FOLDERID_PicturesLibrary", "FOLDERID_VideosLibrary", "FOLDERID_RecordedTVLibrary",
      "FOLDERID_HomeGroup", "FOLDERID_HomeGroupCurrentUser",
      "FOLDERID_DeviceMetadataStore", "FOLDERID_Libraries", "FOLDERID_PublicLibraries",
      "FOLDERID_UserPinned", "FOLDERID_ImplicitAppShortcuts", "FOLDERID_AccountPictures",
      "FOLDERID_PublicUserTiles", "FOLDERID_AppsFolder", "FOLDERID_StartMenuAllPrograms",
      "FOLDERID_CommonStartMenuPlaces", "FOLDERID_ApplicationShortcuts",
      "FOLDERID_RoamingTiles", "FOLDERID_RoamedTileImages", "FOLDERID_Screenshots",
      "FOLDERID_CameraRoll", "FOLDERID_SkyDrive", "FOLDERID_OneDrive",
      "FOLDERID_SkyDriveDocuments", "FOLDERID_SkyDrivePictures", "FOLDERID_SkyDriveMusic",
      "FOLDERID_SkyDriveCameraRoll", "FOLDERID_SearchHistory", "FOLDERID_SearchTemplates",
      "FOLDERID_CameraRollLibrary", "FOLDERID_SavedPictures",
      "FOLDERID_SavedPicturesLibrary", "FOLDERID_RetailDemo", "FOLDERID_Device",
      "FOLDERID_DevelopmentFiles", "FOLDERID_Objects3D", "FOLDERID_AppCaptures",
      "FOLDERID_LocalDocuments", "FOLDERID_LocalPictures", "FOLDERID_LocalVideos",
      "FOLDERID_LocalMusic", "FOLDERID_LocalDownloads", "FOLDERID_RecordedCalls",
      "FOLDERID_AllAppMods", "FOLDERID_CurrentAppMods", "FOLDERID_AppDataDesktop",
      "FOLDERID_AppDataDocuments", "FOLDERID_AppDataFavorites",
      "FOLDERID_AppDataProgramData"
   >>

\* A table one entry short: the last variant's identifier was never added.
FOLDER_IDS_Short == SubSeq(FOLDER_IDS_Full, 1, Len(FOLDER_IDS_Full) - 1)

\* A table with two neighbouring entries exchanged (Documents, Favorites).
FOLDER_IDS_Swapped ==
   [k \in 1..Len(FOLDER_IDS_Full) |->
      IF k = 19 THEN FOLDER_IDS_Full[20]
      ELSE IF k = 20 THEN FOLDER_IDS_Full[19]
      ELSE FOLDER_IDS_Full[k]]

\* static FOLDER_IDS: &[GUID]
FOLDER_IDS == FOLDER_IDS_Full

Variants == {FolderId[k] : k \in 1..Len(FolderId)}

\* `id as usize`
Discriminant(v) == (CHOOSE k \in 1..Len(FolderId) : FolderId[k] = v) - 1

\* ------------------------------------------------------ the platform side
NULL == 0
Threads == 1..NumThreads
Addrs == 1..NumThreads

\* UTF-16 code units the platform writes: the terminator, 'C', U+00E9.
WChars == {0, 67, 233}

\* A platform buffer: 1..MaxBufLen code units, the last one the terminator.
\* The empty sequence stands for "no buffer" (a null pointer was returned).
NoBuffer == << >>
WideBuffers ==
   {b \in UNION {[1..n -> WChars] : n \in 1..MaxBufLen} : b[Len(b)] = 0}

\* Values GetLastError() may hold after the query.
LastErrors == {0, 87}

\* Everything SHGetKnownFolderPath may answer: a status, a buffer or none,
\* and the thread's last-error value.
Responses ==
   [ret : HResults, buf : WideBuffers \cup {NoBuffer}, err : LastErrors]

\* ----------------------------------------------------- reading the buffer
\* lstrlenW: the number of code units before the first terminator; 0 for a
\* null pointer.
RECURSIVE lstrlenFrom(_, _)
lstrlenFrom(mem, k) ==
   IF k > Len(mem) \/ mem[k] = 0 THEN 0 ELSE 1 + lstrlenFrom(mem, k + 1)

lstrlenW(mem) == lstrlenFrom(mem, 1)

\* std::slice::from_raw_parts(ptr, len)
from_raw_parts(mem, len) == SubSeq(mem, 1, len)

IsHigh(u) == u >= 55296 /\ u <= 56319
IsLow(u)  == u >= 56320 /\ u <= 57343

\* The WTF-8 bytes of one code point.
Wtf8(cp) ==
   IF cp < 128 THEN <<cp>>
   ELSE IF cp < 2048 THEN <<192 + (cp \div 64), 128 + (cp % 64)>>
   ELSE IF cp < Half THEN
      <<224 + (cp \div 4096), 128 + ((cp \div 64) % 64), 128 + (cp % 64)>>
   ELSE <<240 + (cp \div 262144), 128 + ((cp \div 4096) % 64),
          128 + ((cp \div 64) % 64), 128 + (cp % 64)>>

\* OsString::from_wide: UTF-16 code units to the WTF-8 bytes an OsString
\* holds; a surrogate pair becomes one code point, a lone surrogate is kept.
RECURSIVE FromWideAt(_, _)
FromWideAt(w, k) ==
   IF k > Len(w) THEN << >>
   ELSE IF IsHigh(w[k]) /\ k < Len(w) /\ IsLow(w[k + 1])
      THEN Wtf8(Half + (w[k] - 55296) * 1024 + (w[k + 1] - 56320))
              \o FromWideAt(w, k + 2)
      ELSE Wtf8(w[k]) \o FromWideAt(w, k + 1)

from_wide(w) == FromWideAt(w, 1)

\* ------------------------------------------------------------ the results
NoCode == U32(0, 0)
Ok(path)           == [kind |-> "Ok", path |-> path, code |-> NoCode, os |-> 0]
ErrVirtual         == [kind |-> "Virtual", path |-> << >>, code |-> NoCode, os |-> 0]
ErrNotFound        == [kind |-> "NotFound", path |-> << >>, code |-> NoCode, os |-> 0]
ErrInvalidArg(os)  == [kind |-> "InvalidArg", path |-> << >>, code |-> NoCode, os |-> os]
ErrOther(code, os) == [kind |-> "Other", path |-> << >>, code |-> code, os |-> os]
NoResult           == [kind |-> "None", path |-> << >>, code |-> NoCode, os |-> 0]

ErrorKinds == {"Virtual", "NotFound", "InvalidArg", "Other"}

\* impl Display for Error
Display(kind) ==
   CASE kind = "Virtual"    -> "virtual folders have no path"
     [] kind = "NotFound"   -> "not found"
     [] kind = "InvalidArg" -> "invalid arg"
     [] kind = "Other"      -> "other"

\* A slip: only the first of the two "not found" codes is recognised.
Classify_OneNotFound(ret, mem, os) ==
   CASE ret = S_OK         -> Ok(from_wide(from_raw_parts(mem, lstrlenW(mem))))
     [] ret = E_FAIL       -> ErrVirtual
     [] ret = E_INVALIDARG -> ErrInvalidArg(os)
     [] ret = NOT_FOUND    -> ErrNotFound
     [] OTHER              -> ErrOther(AsU32(ret), os)

\* A slip: the "invalid argument" arm is missing and the code falls through
\* to the last arm.
Classify_InvalidArgAsOther(ret, mem, os) ==
   CASE ret = S_OK         -> Ok(from_wide(from_raw_parts(mem, lstrlenW(mem))))
     [] ret = E_FAIL       -> ErrVirtual
     [] ret \in {NOT_FOUND, CANNOT_FIND_PATH} -> ErrNotFound
     [] OTHER              -> ErrOther(AsU32(ret), os)

\* The match of raw_known_folder_path on the status, given the memory ptr
\* points at and the thread's last error.
Classify(ret, mem, os) ==
   CASE ret = S_OK         -> Ok(from_wide(from_raw_parts(mem, lstrlenW(mem))))
     [] ret = E_FAIL       -> ErrVirtual
     [] ret = E_INVALIDARG -> ErrInvalidArg(os)
     [] ret \in {NOT_FOUND, CANNOT_FIND_PATH} -> ErrNotFound
     [] OTHER              -> ErrOther(AsU32(ret), os)

\* --------------------------------------------------------------- the state
VARIABLES
   env,        \* who calls what, and what the platform may answer (fixed)
   pc,         \* per thread: position inside the call
   entry,      \* per thread: the function the call entered through
   id,         \* per thread: the FolderId argument ("" for a direct call)
   index,      \* per thread: the position used in FOLDER_IDS
   rfid,       \* per thread: the REFKNOWNFOLDERID handed to the resolver
   ptr,        \* per thread: the local `ptr`
   ret,        \* per thread: the local `ret`
   result,     \* per thread: the local `result`, then the value returned
   lastError,  \* per thread: GetLastError()
   heap,       \* the platform's allocations: address -> memory and owner
   answered,   \* what the system has answered so far, per identifier
   outcome,    \* the first result returned for each identifier
   calls,      \* calls started, where the scenario limits them
   aborted,    \* the process was aborted
   freeCalls,  \* per thread: CoTaskMemFree calls made by the current call
   reads,      \* per thread: buffer reads made by the current call
   snapshot,   \* per thread: the buffer as the query of this call wrote it
   faults      \* memory-safety and bounds violations observed

vars == <<env, pc, entry, id, index, rfid, ptr, ret, result, lastError, heap,
          answered, outcome, calls, aborted, freeCalls, reads, snapshot, faults>>

Unallocated == [mem |-> NoBuffer, owner |-> 0]
Empty == [g \in {} |-> NoResult]

PublicEntry == "known_folder_path"
TestEntry   == "tests::all_ids"

\* The budget of a scenario whose callers call again and again.
Unlimited == -1

\* The positions the concurrent callers use: Documents and
\* AppDataProgramData, the last variant.
CallIds == {Discriminant("Documents"), Discriminant("AppDataProgramData")}

InitState(e) ==
   /\ env = e
   /\ pc = [t \in Threads |-> "idle"]
   /\ entry = [t \in Threads |-> ""]
   /\ id = [t \in Threads |-> ""]
   /\ index = [t \in Threads |-> 0]
   /\ rfid = [t \in Threads |-> ""]
   /\ ptr = [t \in Threads |-> NULL]
   /\ ret = [t \in Threads |-> S_OK]
   /\ result = [t \in Threads |-> NoResult]
   /\ lastError = [t \in Threads |-> 0]
   /\ heap = [a \in Addrs |-> Unallocated]
   /\ answered = Empty
   /\ outcome = Empty
   /\ calls = 0
   /\ aborted = FALSE
   /\ freeCalls = [t \in Threads |-> 0]
   /\ reads = [t \in Threads |-> 0]
   /\ snapshot = [t \in Threads |-> NoBuffer]
   /\ faults = {}

\* One caller calling again and again, every answer of the platform, one
\* folder (Documents).
Init ==
   InitState([threads |-> {1}, testers |-> {1}, ids |-> {Discriminant("Documents")},
              platform |-> "every answer", budget |-> Unlimited])

\* One caller and one call, on any variant or any table position: every
\* iteration of the sweep of tests::all_ids, and every public call.
InitCatalog ==
   InitState([threads |-> {1}, testers |-> {1}, ids |-> 0..(Len(FolderId) - 1),
              platform |-> "no last error",
              budget |-> 1])

\* The answers of the concurrent scenario: two successes with different
\* paths and a failure that leaves a buffer to release.
ConcurrentResponses ==
   {[ret |-> S_OK, buf |-> <<67, 0>>, err |-> 0],
    [ret |-> S_OK, buf |-> <<233, 0>>, err |-> 0],
    [ret |-> E_FAIL, buf |-> <<67, 0>>, err |-> 0]}

\* The answers that set no last error.
QuietResponses == {r \in Responses : r.err = 0}

\* Several callers at once, on two folders; the test runs on one of them.
InitConcurrent ==
   InitState([threads |-> Threads, testers |-> {1}, ids |-> CallIds,
              platform |-> "two paths and a failure", budget |-> Unlimited])

\* What the platform of the scenario may answer.
Answers ==
   CASE env.platform = "every answer"           -> Responses
     [] env.platform = "no last error"          -> QuietResponses
     [] env.platform = "two paths and a failure" -> ConcurrentResponses

\* ------------------------------------------------------------- the steps
\* A slip in the order of the steps: the buffer is released right after the
\* match and measured afterwards.
NextPc_FreeFirst(at, r) ==
   CASE at = "match"   -> "free"
     [] at = "free"    -> IF r = S_OK THEN "measure" ELSE "return"
     [] at = "measure" -> "return"

\* A slip: the buffer is measured whatever the status.
NextPc_AlwaysMeasure(at, r) ==
   CASE at = "match"   -> "measure"
     [] at = "measure" -> "free"
     [] at = "free"    -> "return"

\* The order of the steps of raw_known_folder_path after the query: the
\* match, on S_OK the measuring and copying of the buffer, the release, the
\* return.
NextPc(at, r) ==
   CASE at = "match"   -> IF r = S_OK THEN "measure" ELSE "free"
     [] at = "measure" -> "free"
     [] at = "free"    -> "return"

\* The scenario's limit on the number of calls, if it sets one.
MayCall == env.budget = Unlimited \/ calls < env.budget
Started == IF env.budget = Unlimited THEN calls ELSE calls + 1

Begin(t, e, v, i, g) ==
   /\ pc' = [pc EXCEPT ![t] = "query"]
   /\ entry' = [entry EXCEPT ![t] = e]
   /\ id' = [id EXCEPT ![t] = v]
   /\ index' = [index EXCEPT ![t] = i]
   /\ rfid' = [rfid EXCEPT ![t] = g]
   /\ ptr' = [ptr EXCEPT ![t] = NULL]
   /\ result' = [result EXCEPT ![t] = NoResult]
   /\ freeCalls' = [freeCalls EXCEPT ![t] = 0]
   /\ reads' = [reads EXCEPT ![t] = 0]
   /\ snapshot' = [snapshot EXCEPT ![t] = NoBuffer]
   /\ calls' = Started
   /\ UNCHANGED <<env, ret, lastError, heap, answered, outcome, aborted>>

\* known_folder_path(v): index the table with `v as usize` and enter
\* raw_known_folder_path, whose first statement sets ptr to null.  An index
\* past the end of the slice panics.
Call(t, v) ==
   /\ ~aborted /\ t \in env.threads /\ pc[t] = "idle"
   /\ MayCall
   /\ Discriminant(v) \in env.ids
   /\ IF Discriminant(v) < Len(FOLDER_IDS)
         THEN /\ Begin(t, PublicEntry, v, Discriminant(v),
                       FOLDER_IDS[Discriminant(v) + 1])
              /\ UNCHANGED faults
         ELSE /\ pc' = [pc EXCEPT ![t] = "panicked"]
              /\ id' = [id EXCEPT ![t] = v]
              /\ index' = [index EXCEPT ![t] = Discriminant(v)]
              /\ faults' = faults \cup {"index out of bounds"}
              /\ calls' = Started
              /\ UNCHANGED <<env, entry, rfid, ptr, ret, result, lastError,
                             heap, answered, outcome, aborted, freeCalls,
                             reads, snapshot>>

\* One iteration of the loop of tests::all_ids: raw_known_folder_path on the
\* i-th entry of the table.
AllIds(t, i) ==
   /\ ~aborted /\ t \in env.testers /\ pc[t] = "idle"
   /\ MayCall
   /\ i \in env.ids /\ i < Len(FOLDER_IDS)
   /\ Begin(t, TestEntry, "", i, FOLDER_IDS[i + 1])
   /\ UNCHANGED faults

LowestFree == CHOOSE a \in Addrs :
                 /\ heap[a] = Unallocated
                 /\ \A b \in Addrs : heap[b] = Unallocated => a <= b

\* A slip: `ptr` is one static shared by all calls instead of a local, so a
\* call may find the buffer of another call behind it.
Deref_Shared(t) ==
   LET live == {a \in Addrs : heap[a].owner # 0}
   IN  IF ptr[t] = NULL \/ live = {} THEN NoBuffer
       ELSE heap[CHOOSE a \in live : \A b \in live : a <= b].mem

\* What the thread finds at the address in ptr.
Deref(t) == IF ptr[t] = NULL THEN NoBuffer ELSE heap[ptr[t]].mem

\* SHGetKnownFolderPath(id, 0, null, &mut ptr) and the `match ret` on its
\* status.  The platform answers with a status, a buffer of its own
\* allocation (or none) and a last error; on an unchanged system the status
\* and the buffer content are those it gave for this identifier before.
\* Every arm of the match but S_OK builds its error at once, without a look
\* at the buffer.
Query(t) ==
   /\ ~aborted /\ pc[t] = "query"
   /\ \E r \in Answers :
         /\ rfid[t] \in DOMAIN answered =>
               /\ r.ret = answered[rfid[t]].ret
               /\ r.buf = answered[rfid[t]].buf
         /\ answered' = IF rfid[t] \in DOMAIN answered THEN answered
                        ELSE answered @@ (rfid[t] :> [ret |-> r.ret, buf |-> r.buf])
         /\ ret' = [ret EXCEPT ![t] = r.ret]
         /\ lastError' = [lastError EXCEPT ![t] = r.err]
         /\ snapshot' = [snapshot EXCEPT ![t] = r.buf]
         /\ IF r.buf = NoBuffer
               THEN /\ ptr' = [ptr EXCEPT ![t] = NULL]
                    /\ UNCHANGED heap
               ELSE /\ ptr' = [ptr EXCEPT ![t] = LowestFree]
                    /\ heap' = [heap EXCEPT ![LowestFree] =
                                   [mem |-> r.buf, owner |-> t]]
         /\ result' = [result EXCEPT ![t] =
                          IF r.ret = S_OK THEN NoResult
                          ELSE Classify(r.ret, NoBuffer, r.err)]
         /\ pc' = [pc EXCEPT ![t] = NextPc("match", r.ret)]
   /\ UNCHANGED <<env, entry, id, index, rfid, outcome, calls, aborted,
                  freeCalls, reads, faults>>

\* The S_OK arm: lstrlenW(ptr), from_raw_parts(ptr, len), from_wide,
\* PathBuf::from.  from_raw_parts on a null pointer is undefined behaviour:
\* a build without the precondition check yields the empty slice, a build
\* with it aborts the process.
Measure(t) ==
   /\ ~aborted /\ pc[t] = "measure"
   /\ reads' = [reads EXCEPT ![t] = reads[t] + 1]
   /\ faults' = faults \cup
         (IF ptr[t] = NULL THEN {"null slice"}
          ELSE IF heap[ptr[t]].owner # t THEN {"read of a buffer not owned"}
          ELSE {})
   /\ \/ /\ result' = [result EXCEPT ![t] =
                          IF ret[t] = S_OK
                             THEN Classify(ret[t], Deref(t), lastError[t])
                             ELSE result[t]]
         /\ pc' = [pc EXCEPT ![t] = NextPc("measure", ret[t])]
         /\ UNCHANGED aborted
      \/ /\ ptr[t] = NULL
         /\ aborted' = TRUE
         /\ UNCHANGED <<result, pc>>
   /\ UNCHANGED <<env, entry, id, index, rfid, ptr, ret, lastError, heap,
                  answered, outcome, calls, freeCalls, snapshot>>

\* A slip: the release is skipped when the query failed.
Free_OnSuccessOnly(t) ==
   /\ ~aborted /\ pc[t] = "free"
   /\ freeCalls' = [freeCalls EXCEPT ![t] =
                       IF ret[t] = S_OK THEN freeCalls[t] + 1 ELSE freeCalls[t]]
   /\ IF ret[t] = S_OK /\ ptr[t] # NULL
         THEN heap' = [heap EXCEPT ![ptr[t]] = Unallocated]
         ELSE UNCHANGED heap
   /\ pc' = [pc EXCEPT ![t] = NextPc("free", ret[t])]
   /\ UNCHANGED <<env, entry, id, index, rfid, ptr, ret, result, lastError,
                  answered, outcome, calls, aborted, reads, snapshot, faults>>

\* CoTaskMemFree(ptr): a null pointer is accepted and nothing is released.
Free(t) ==
   /\ ~aborted /\ pc[t] = "free"
   /\ freeCalls' = [freeCalls EXCEPT ![t] = freeCalls[t] + 1]
   /\ IF ptr[t] = NULL
         THEN UNCHANGED <<heap, faults>>
         ELSE IF heap[ptr[t]].owner = t
            THEN /\ heap' = [heap EXCEPT ![ptr[t]] = Unallocated]
                 /\ UNCHANGED faults
            ELSE /\ faults' = faults \cup {"release of a buffer not owned"}
                 /\ UNCHANGED heap
   /\ pc' = [pc EXCEPT ![t] = NextPc("free", ret[t])]
   /\ UNCHANGED <<env, entry, id, index, rfid, ptr, ret, result, lastError,
                  answered, outcome, calls, aborted, reads, snapshot>>

\* `result`: the value goes back to the caller and the locals of the call
\* go out of scope; the thread's last error stays.
Return(t) ==
   /\ ~aborted /\ pc[t] = "return"
   /\ pc' = [pc EXCEPT ![t] = "idle"]
   /\ outcome' = IF rfid[t] \in DOMAIN outcome THEN outcome
                 ELSE outcome @@ (rfid[t] :> result[t])
   /\ entry' = [entry EXCEPT ![t] = ""]
   /\ id' = [id EXCEPT ![t] = ""]
   /\ index' = [index EXCEPT ![t] = 0]
   /\ rfid' = [rfid EXCEPT ![t] = ""]
   /\ ptr' = [ptr EXCEPT ![t] = NULL]
   /\ ret' = [ret EXCEPT ![t] = S_OK]
   /\ result' = [result EXCEPT ![t] = NoResult]
   /\ freeCalls' = [freeCalls EXCEPT ![t] = 0]
   /\ reads' = [reads EXCEPT ![t] = 0]
   /\ snapshot' = [snapshot EXCEPT ![t] = NoBuffer]
   /\ UNCHANGED <<env, lastError, heap, answered, calls, aborted, faults>>

Next ==
   \E t \in Threads :
      \/ \E v \in Variants : Call(t, v)
      \/ \E i \in 0..(Len(FolderId) - 1) : AllIds(t, i)
      \/ Query(t)
      \/ Measure(t)
      \/ Free(t)
      \/ Return(t)

Spec == Init /\ [][Next]_vars
SpecCatalog == InitCatalog /\ [][Next]_vars
SpecConcurrent == InitConcurrent /\ [][Next]_vars

\* ------------------------------------------------------------- properties
\* The code units of a buffer before its first terminator.
Content(mem) ==
   IF mem = NoBuffer THEN << >>
   ELSE LET n == CHOOSE k \in 1..Len(mem) :
                    mem[k] = 0 /\ \A j \in 1..(k - 1) : mem[j] # 0
        IN  SubSeq(mem, 1, n - 1)

\* The name the platform headers give the identifier of variant v.
KnownFolderIdOf(v) ==
   CASE v = "SearchMapi" -> "FOLDERID_SEARCH_MAPI"
     [] v = "SearchCsc"  -> "FOLDERID_SEARCH_CSC"
     [] OTHER            -> "FOLDERID_" \o v

\* OsStr::encode_wide: the WTF-8 bytes back to UTF-16 code units.
RECURSIVE encode_wide(_)
encode_wide(b) ==
   IF b = << >> THEN << >>
   ELSE IF b[1] < 128 THEN <<b[1]>> \o encode_wide(Tail(b))
   ELSE IF b[1] < 224 THEN
      <<(b[1] - 192) * 64 + (b[2] - 128)>> \o encode_wide(SubSeq(b, 3, Len(b)))
   ELSE IF b[1] < 240 THEN
      <<(b[1] - 224) * 4096 + (b[2] - 128) * 64 + (b[3] - 128)>>
         \o encode_wide(SubSeq(b, 4, Len(b)))
   ELSE
      LET cp == (b[1] - 240) * 262144 + (b[2] - 128) * 4096
                   + (b[3] - 128) * 64 + (b[4] - 128) - Half
      IN  <<55296 + (cp \div 1024), 56320 + (cp % 1024)>>
             \o encode_wide(SubSeq(b, 5, Len(b)))

\* The call of thread t is at the point of handing its result back.
Returning(t) == pc[t] = "return"

\* The call of thread t is between its query and its return.
InFlight(t) == pc[t] \in {"measure", "free", "return"}

\* C1: every status the platform query returns is classified as S_OK -> Ok,
\* E_FAIL -> Virtual, E_INVALIDARG -> InvalidArg, 0x80070002 or 0x80070003
\* -> NotFound, anything else -> Other, and in no other way.
C1_Classification ==
   \A t \in Threads : Returning(t) =>
      /\ (result[t].kind = "Ok") <=> (ret[t] = S_OK)
      /\ (result[t].kind = "Virtual") <=> (ret[t] = E_FAIL)
      /\ (result[t].kind = "InvalidArg") <=> (ret[t] = E_INVALIDARG)
      /\ (result[t].kind = "NotFound") <=>
            (ret[t] \in {NOT_FOUND, CANNOT_FIND_PATH})
      /\ (result[t].kind = "Other") <=> (ret[t] \notin NamedCodes)
      /\ result[t].kind \in ErrorKinds \cup {"Ok"}

C1_Witness ==
   \E t \in Threads :
      Returning(t) /\ ret[t] = CANNOT_FIND_PATH /\ result[t].kind = "NotFound"

\* C2: a call that returns has made exactly one CoTaskMemFree call for its
\* buffer pointer, on the success path and on every error branch, and the
\* buffer the platform gave it is no longer allocated.
C2_ReleasedOnce ==
   \A t \in Threads :
      /\ freeCalls[t] <= 1
      /\ Returning(t) =>
            /\ freeCalls[t] = 1
            /\ \A a \in Addrs : heap[a].owner # t
      /\ "release of a buffer not owned" \notin faults

C2_Witness ==
   \E t \in Threads :
      /\ Returning(t) /\ result[t].kind = "Other"
      /\ ptr[t] # NULL /\ freeCalls[t] = 1

\* C3: the table has as many entries as FolderId has variants, so the index
\* `id as usize` of every call of known_folder_path is inside the table and
\* the indexing never panics.
C3_TableLength ==
   /\ Len(FOLDER_IDS) = Cardinality(Variants)
   /\ "index out of bounds" \notin faults
   /\ \A t \in Threads :
         /\ pc[t] # "panicked"
         /\ entry[t] = PublicEntry => index[t] < Len(FOLDER_IDS)

C3_Witness ==
   \E t \in Threads :
      /\ pc[t] = "query" /\ entry[t] = PublicEntry
      /\ id[t] = "AppDataProgramData" /\ index[t] = Len(FOLDER_IDS) - 1

\* The k-th entry of the table is the identifier named after the k-th
\* variant, and no identifier stands at two positions.
TableAligned ==
   /\ \A k \in 1..Len(FolderId) :
         k <= Len(FOLDER_IDS) /\ FOLDER_IDS[k] = KnownFolderIdOf(FolderId[k])
   /\ Cardinality({FOLDER_IDS[k] : k \in 1..Len(FOLDER_IDS)}) = Len(FOLDER_IDS)

\* C4: known_folder_path(V) queries the platform with the table entry at
\* position `V as usize`, and that entry is the platform identifier named
\* after V; no two variants share an entry.
C4_Alignment ==
   /\ \A t \in Threads :
         (entry[t] = PublicEntry /\ pc[t] # "idle") =>
            /\ index[t] = Discriminant(id[t])
            /\ rfid[t] = FOLDER_IDS[index[t] + 1]
            /\ rfid[t] = KnownFolderIdOf(id[t])
            /\ InFlight(t) =>
                  (rfid[t] \in DOMAIN answered /\ answered[rfid[t]].ret = ret[t])
   /\ TableAligned

C4_Witness ==
   \E t \in Threads :
      /\ entry[t] = PublicEntry /\ InFlight(t)
      /\ id[t] = "SearchMapi" /\ rfid[t] = "FOLDERID_SEARCH_MAPI"
      /\ rfid[t] \in DOMAIN answered

\* C5: whatever the platform answers (any status, with no buffer, an empty
\* one or a non-empty one), the resolution returns Ok with a non-empty path
\* or one of the four error kinds; it never aborts, never builds a slice
\* from an invalid pointer and never returns Ok with an empty path.
C5_NonEmptyOrError ==
   /\ ~aborted
   /\ "null slice" \notin faults
   /\ \A t \in Threads : Returning(t) =>
         \/ result[t].kind = "Ok" /\ result[t].path # << >>
         \/ result[t].kind \in ErrorKinds

\* C6: a status c that is none of the named codes is returned as
\* Other(code, _) with code the 32-bit pattern of c (c mod 2^32): the pattern
\* read back as i32 is c, no other unnamed status has it, and a named status
\* is never returned as Other.
C6_OtherCode ==
   \A t \in Threads : Returning(t) =>
      /\ ret[t] \notin NamedCodes =>
            /\ result[t].kind = "Other"
            /\ result[t].code.hi \in 0..(Half - 1)
            /\ result[t].code.lo \in 0..(Half - 1)
            /\ AsI32(result[t].code) = ret[t]
            /\ (ret[t] < 0) <=> (result[t].code.hi >= Half \div 2)
            /\ \A c \in HResults \ {ret[t]} : AsU32(c) # result[t].code
      /\ result[t].kind = "Other" => ret[t] \notin NamedCodes

C6_Witness ==
   \E t \in Threads :
      /\ Returning(t) /\ ret[t] = HRESULT_ALLONES
      /\ result[t] = ErrOther(U32(65535, 65535), lastError[t])

\* C7: on an unchanged system a later resolution of an identifier returns
\* the path, or the error kind, that its first resolution returned, whatever
\* calls were made before or in between.
C7_Deterministic ==
   \A t \in Threads :
      (Returning(t) /\ rfid[t] \in DOMAIN outcome) =>
         /\ result[t].kind = outcome[rfid[t]].kind
         /\ result[t].path = outcome[rfid[t]].path
         /\ result[t].code = outcome[rfid[t]].code

C7_Witness ==
   \E t \in Threads :
      /\ Returning(t) /\ rfid[t] \in DOMAIN outcome
      /\ result[t].kind = "Ok"
      /\ Cardinality(DOMAIN outcome) = 2
      /\ \E g \in DOMAIN outcome : outcome[g].kind # "Ok"

\* C8: under every interleaving of simultaneous calls each call reads and
\* releases only the buffer its own query returned, each buffer is released
\* once, none is read after its release, and each call returns what it
\* would return alone.
C8_Concurrent ==
   /\ faults = {}
   /\ ~aborted
   /\ \A a \in Addrs : heap[a] # Unallocated =>
         /\ pc[heap[a].owner] \in {"measure", "free"}
         /\ ptr[heap[a].owner] = a
         /\ heap[a].mem = snapshot[heap[a].owner]
   /\ \A t, u \in Threads :
         (t # u /\ InFlight(t) /\ InFlight(u)
            /\ pc[t] # "return" /\ pc[u] # "return" /\ ptr[t] # NULL)
         => ptr[t] # ptr[u]
   /\ \A t \in Threads : Returning(t) =>
         /\ freeCalls[t] = 1
         /\ answered[rfid[t]].ret = ret[t]
         /\ (ret[t] = S_OK) <=> (result[t].kind = "Ok")
         /\ ret[t] = S_OK =>
               /\ reads[t] = 1
               /\ encode_wide(result[t].path) = Content(answered[rfid[t]].buf)
         /\ ret[t] = E_FAIL => result[t] = ErrVirtual

C8_Witness ==
   \E t, u \in Threads :
      /\ t # u /\ pc[t] = "measure" /\ pc[u] = "free"
      /\ ptr[t] # NULL /\ ptr[u] # NULL
      /\ rfid[t] = rfid[u]

\* C9 as stated: no call of known_folder_path returns Err(InvalidArg).
C9_InvalidArgUnreachable ==
   \A t \in Threads :
      (Returning(t) /\ entry[t] = PublicEntry) => result[t].kind # "InvalidArg"

\* C9, amended: a call of known_folder_path returns Err(InvalidArg), with
\* the thread's last error, exactly when the platform answers E_INVALIDARG
\* for the table identifier of the variant; the entry point does not rule
\* that answer out.
C9_InvalidArgFromPlatform ==
   \A t \in Threads :
      (Returning(t) /\ entry[t] = PublicEntry) =>
         /\ (result[t].kind = "InvalidArg") <=> (ret[t] = E_INVALIDARG)
         /\ ret[t] = E_INVALIDARG =>
               /\ result[t] = ErrInvalidArg(lastError[t])
               /\ rfid[t] = KnownFolderIdOf(id[t])
               /\ answered[rfid[t]].ret = E_INVALIDARG

C9_Witness ==
   \E t \in Threads :
      /\ Returning(t) /\ entry[t] = PublicEntry
      /\ id[t] = "Documents" /\ result[t].kind = "InvalidArg"

\* C10: within a call the buffer is read only on S_OK, only before its
\* release and only once, the result exists before the release, and a
\* returned path holds the buffer's content as the query wrote it.
C10_Order ==
   /\ "read of a buffer not owned" \notin faults
   /\ \A t \in Threads :
         /\ reads[t] > 0 => ret[t] = S_OK
         /\ reads[t] <= 1
         /\ freeCalls[t] > 0 => Returning(t)
         /\ (pc[t] = "measure" /\ ~aborted) => (reads[t] = 0 /\ freeCalls[t] = 0)
         /\ pc[t] = "free" =>
               /\ result[t] # NoResult
               /\ reads[t] = (IF ret[t] = S_OK THEN 1 ELSE 0)
               /\ ptr[t] # NULL => heap[ptr[t]] = [mem |-> snapshot[t], owner |-> t]
         /\ (Returning(t) /\ result[t].kind = "Ok") =>
               /\ reads[t] = 1
               /\ encode_wide(result[t].path) = Content(snapshot[t])
               /\ ptr[t] # NULL => heap[ptr[t]] = Unallocated

C10_Witness ==
   \E t \in Threads :
      /\ Returning(t) /\ result[t].kind = "Ok"
      /\ snapshot[t] = <<233, 0>> /\ result[t].path = <<195, 169>>
      /\ heap[ptr[t]] = Unallocated
====
